---- MODULE Spec2Model ----
(***************************************************************************)
(* cronrepo: cron jobs kept as tagged comment lines in a directory, a      *)
(* generated block merged into the user's crontab, and a forecast of the   *)
(* invocations of the jobs in a time window.                               *)
(*                                                                         *)
(* A Python string is a sequence of atoms.  An atom is one character, or   *)
(* a run of characters that has no newline and neither starts nor ends     *)
(* with white space (a path component, a word of a comment); the white     *)
(* space atoms are " " and "\n".                                           *)
(***************************************************************************)
EXTENDS Integers, Sequences, FiniteSets, TLC

(***************************************************************************)
(* Bounds                                                                  *)
(***************************************************************************)
MaxLines == 3       \* lines of the crontab found before the first operation
MaxOps == 2         \* install / uninstall operations in one behaviour
MaxSpecs == 3       \* tagged lines in the directory that generate scans
MaxJobs == 2        \* tagged lines in the directory that list_inv scans

(***************************************************************************)
(* str methods used by the code                                            *)
(***************************************************************************)
WS == {" ", "\n"}

RECURSIVE LStrip(_)
LStrip(s) == IF s # <<>> /\ Head(s) \in WS THEN LStrip(Tail(s)) ELSE s

RECURSIVE RStrip(_)
RStrip(s) ==
    IF s # <<>> /\ s[Len(s)] \in WS THEN RStrip(SubSeq(s, 1, Len(s) - 1)) ELSE s

\* str.strip()
Strip(s) == RStrip(LStrip(s))

\* str.split(sep): never empty, ''.split(sep) is ['']
RECURSIVE SplitOn(_, _)
SplitOn(s, sep) ==
    IF \A i \in 1..Len(s) : s[i] # sep THEN <<s>>
    ELSE LET i == CHOOSE k \in 1..Len(s) :
                      s[k] = sep /\ \A j \in 1..(k - 1) : s[j] # sep
         IN  <<SubSeq(s, 1, i - 1)>> \o SplitOn(SubSeq(s, i + 1, Len(s)), sep)

\* str.split('\n')
SplitNL(s) == SplitOn(s, "\n")

\* '\n'.join(lines)
RECURSIVE JoinNL(_)
JoinNL(ls) ==
    IF ls = <<>> THEN <<>>
    ELSE IF Len(ls) = 1 THEN ls[1]
    ELSE ls[1] \o <<"\n">> \o JoinNL(Tail(ls))

\* ' '.join(parts)
RECURSIVE JoinSP(_)
JoinSP(ps) ==
    IF ps = <<>> THEN <<>>
    ELSE IF Len(ps) = 1 THEN ps[1]
    ELSE ps[1] \o <<" ">> \o JoinSP(Tail(ps))

\* list.index(x), positions counted from 1; 0 stands for ValueError
Index(ls, x) ==
    IF \E i \in 1..Len(ls) : ls[i] = x
    THEN CHOOSE i \in 1..Len(ls) : ls[i] = x /\ \A j \in 1..(i - 1) : ls[j] # x
    ELSE 0

\* str.endswith('\n')
EndsWithNL(s) == s # <<>> /\ s[Len(s)] = "\n"

(***************************************************************************)
(* Targets and markers                                                     *)
(***************************************************************************)
NoTarget == <<>>                \* target '' : operate on all jobs
T1 == <<"t1">>
Targets == {NoTarget, T1}

\* CronDir.markers
markers(target) ==
    << <<"# BEGIN cronrepo generated:", " ">> \o target,
       <<"# END cronrepo generated:", " ">> \o target >>

\* CronDir.runner_path (directory and host name are fixed)
runner_path(target) == <<"/d/.cronrepo-h-">> \o target \o <<".sh">>

(***************************************************************************)
(* CronSpec: one tagged line of a file of the cron directory.              *)
(* A CronSpec is a record [path, target, jid, level, min, hr, day, mon,    *)
(* dow, args]: path is <<directory, file name>>, the others are the groups *)
(* of CRON_LINE_RE as strings, '' for a group that did not take part.      *)
(***************************************************************************)
Range(s) == {s[i] : i \in 1..Len(s)}

\* code points of the characters that are compared; an atom of several
\* characters stands at the place of its first character
Ord(c) ==
    CASE c = "%" -> 37  [] c = "*" -> 42  [] c = "," -> 44  [] c = "-" -> 45
      [] c = "/" -> 47  [] c = "0" -> 48  [] c = "1" -> 49  [] c = "2" -> 50
      [] c = "3" -> 51  [] c = "4" -> 52  [] c = "5" -> 53  [] c = "6" -> 54
      [] c = "7" -> 55  [] c = "8" -> 56  [] c = "9" -> 57
      [] c = "bar" -> 98  [] c = "foo" -> 102  [] c = "j" -> 106

\* str < str
RECURSIVE StrLess(_, _)
StrLess(a, b) ==
    IF b = <<>> THEN FALSE
    ELSE IF a = <<>> THEN TRUE
    ELSE IF Head(a) # Head(b) THEN Ord(Head(a)) < Ord(Head(b))
    ELSE StrLess(Tail(a), Tail(b))

\* tuple < tuple, for tuples of strings of the same length
RECURSIVE TupleLess(_, _)
TupleLess(k1, k2) ==
    IF k1 = <<>> THEN FALSE
    ELSE IF Head(k1) # Head(k2) THEN StrLess(Head(k1), Head(k2))
    ELSE TupleLess(Tail(k1), Tail(k2))

\* os.path.basename
basename(path) == <<path[Len(path)]>>

\* CronSpec.name
name(spec) ==
    IF spec.jid = <<>> THEN basename(spec.path)
    ELSE basename(spec.path) \o <<"%">> \o spec.jid

\* CronSpec.sort_key
sort_key(spec) ==
    << IF spec.dow = <<"1", "-", "5">> THEN <<"*">> ELSE spec.dow,
       spec.hr, spec.min, name(spec) >>

\* CronSpec.cron_fmt
cron_fmt(spec) == JoinSP(<<spec.min, spec.hr, spec.day, spec.mon, spec.dow>>)

\* CronSpec.cmd_str
cmd_str(spec, runner) ==
    LET args == Strip(spec.args)
    IN  JoinSP(<<runner, spec.target, <<"'">> \o spec.jid \o <<"'">>,
                 spec.path>>
               \o (IF args # <<>> THEN <<args>> ELSE <<>>))

\* CronSpec.cron_line
cron_line(spec, runner) == cron_fmt(spec) \o <<" ">> \o cmd_str(spec, runner)

\* CronSpec.level: int(level or '0')
DigitVal(c) == Ord(c) - 48

RECURSIVE ParseNat(_, _)
ParseNat(s, acc) ==
    IF s = <<>> THEN acc ELSE ParseNat(Tail(s), 10 * acc + DigitVal(Head(s)))

level(spec) ==
    LET l == IF spec.level = <<>> THEN <<"0">> ELSE spec.level
    IN  IF Head(l) = "-" THEN 0 - ParseNat(Tail(l), 0)
        ELSE IF Head(l) = "+" THEN ParseNat(Tail(l), 0)
        ELSE ParseNat(l, 0)

\* sorted(lst, key=sort_key): stable, equal keys keep their order
RECURSIVE SortedInsert(_, _)
SortedInsert(lst, spec) ==
    IF lst = <<>> THEN <<spec>>
    ELSE IF TupleLess(sort_key(spec), sort_key(Head(lst)))
         THEN <<spec>> \o lst
         ELSE <<Head(lst)>> \o SortedInsert(Tail(lst), spec)

RECURSIVE Sorted(_)
Sorted(lst) ==
    IF lst = <<>> THEN <<>>
    ELSE SortedInsert(Sorted(SubSeq(lst, 1, Len(lst) - 1)), lst[Len(lst)])

(***************************************************************************)
(* CronDir                                                                 *)
(***************************************************************************)
\* CronDir.get_cron_lst over the tagged lines found in the directory, with
\* the filter of CronSpec.find_cron_specs
get_cron_lst(dir, target) ==
    SelectSeq(dir, LAMBDA spec : target = <<>> \/ spec.target = target)

is_multi(field) == {",", "-", "/", "*"} \cap Range(field)

\* the chain of generate with the tests of Weekends and Monthly exchanged
GroupKey_MonthlyFirst(spec) ==
    IF is_multi(spec.min) # {} \/ is_multi(spec.hr) # {}
    THEN <<1, "More frequent than daily">>
    ELSE IF {"-", "*"} \cap Range(spec.day) = {}
    THEN <<4, "Monthly">>
    ELSE IF {"1", "2", "3", "4", "5", "-", "*"} \cap Range(spec.dow) = {}
    THEN <<3, "Weekends">>
    ELSE <<5, "Weekdays">>

\* the key of grouped that the if / elif chain of generate appends spec to
GroupKey(spec) ==
    IF is_multi(spec.min) # {} \/ is_multi(spec.hr) # {}
    THEN <<1, "More frequent than daily">>
    ELSE IF {"1", "2", "3", "4", "5", "-", "*"} \cap Range(spec.dow) = {}
    THEN <<3, "Weekends">>
    ELSE IF {"-", "*"} \cap Range(spec.day) = {}
    THEN <<4, "Monthly">>
    ELSE <<5, "Weekdays">>

\* generate without the sort of the groups: the headers come out in another
\* order
RECURSIVE SortedKeys_Unsorted(_)
SortedKeys_Unsorted(keys) ==
    IF keys = {} THEN <<>>
    ELSE LET k == CHOOSE x \in keys : \A y \in keys : x[1] >= y[1]
         IN  <<k>> \o SortedKeys_Unsorted(keys \ {k})

\* sorted(grouped.items()): the keys that got a spec, ascending
RECURSIVE SortedKeys(_)
SortedKeys(keys) ==
    IF keys = {} THEN <<>>
    ELSE LET k == CHOOSE x \in keys : \A y \in keys : x[1] <= y[1]
         IN  <<k>> \o SortedKeys(keys \ {k})

RECURSIVE GroupLines(_, _, _)
GroupLines(headers, lst, runner) ==
    IF headers = <<>> THEN <<>>
    ELSE LET header == Head(headers)
             specs == SelectSeq(lst, LAMBDA spec : GroupKey(spec) = header)
         IN  << <<"#", " ", header[2]>> >>
             \o [i \in 1..Len(specs) |-> cron_line(specs[i], runner)]
             \o GroupLines(Tail(headers), lst, runner)

\* the list ret of CronDir.generate, before it is joined
generate_lines(dir, target) ==
    LET cron_lst == get_cron_lst(dir, target)
        lst == Sorted(cron_lst)
        keys == {GroupKey(lst[i]) : i \in 1..Len(lst)}
        ret == GroupLines(SortedKeys(keys), lst, runner_path(target))
    IN  <<markers(target)[1]>> \o ret \o <<markers(target)[2], <<>> >>

\* CronDir.generate
generate(dir, target) == JoinNL(generate_lines(dir, target))

\* stripped_crontab without the test that the begin marker comes first
stripped_crontab_NoOrderTest(target, output) ==
    LET crontab == Strip(output)
        start_marker == markers(target)[1]
        end_marker == markers(target)[2]
        split == SplitNL(crontab)
        crontab_lines == IF split[Len(split)] = <<>>
                         THEN SubSeq(split, 1, Len(split) - 1) ELSE split
        start_idx == Index(crontab_lines, start_marker)
        end_idx == Index(crontab_lines, end_marker)
        kept == IF start_idx # 0 /\ end_idx # 0
                THEN SelectSeq(
                       SubSeq(crontab_lines, 1, start_idx - 1)
                       \o SubSeq(crontab_lines, end_idx + 1, Len(crontab_lines)),
                       LAMBDA l : l \notin {start_marker, end_marker})
                ELSE crontab_lines
    IN  JoinNL(Append(kept, <<>>))

\* CronDir.stripped_crontab applied to the output of crontab -l
stripped_crontab(target, output) ==
    LET crontab == Strip(output)
        start_marker == markers(target)[1]
        end_marker == markers(target)[2]
        split == SplitNL(crontab)
        crontab_lines == IF split[Len(split)] = <<>>
                         THEN SubSeq(split, 1, Len(split) - 1) ELSE split
        start_idx == Index(crontab_lines, start_marker)
        end_idx == Index(crontab_lines, end_marker)
        kept == IF start_idx # 0 /\ end_idx # 0 /\ start_idx < end_idx
                THEN SelectSeq(
                       SubSeq(crontab_lines, 1, start_idx - 1)
                       \o SubSeq(crontab_lines, end_idx + 1, Len(crontab_lines)),
                       LAMBDA l : l \notin {start_marker, end_marker})
                ELSE crontab_lines
    IN  JoinNL(Append(kept, <<>>))

\* install that writes the block alone and drops what crontab -l printed
install_text_DropsTable(dir, target, output) == generate(dir, target)

\* the text CronDir.install hands to install_crontab
install_text(dir, target, output) ==
    LET lines == generate(dir, target)
        cron_tab == stripped_crontab(target, output)
    IN  (IF EndsWithNL(cron_tab) THEN cron_tab ELSE cron_tab \o <<"\n">>)
        \o lines

\* the last line CronDir.create_runner prints to the runner file; the lines
\* before it come from the environment, which is fixed
runner_text(trampoline) ==
    <<"exec", " ">>
    \o (IF trampoline # <<>> THEN trampoline \o <<" ">> ELSE <<>>)
    \o <<"\"$@\"">>

NoFile == <<>>                  \* the runner file does not exist

(***************************************************************************)
(* State                                                                   *)
(***************************************************************************)
VARIABLES
    dir,            \* the tagged lines of the cron directory, in scan order
    crontab,        \* the user's crontab: what crontab -l prints
    runner,         \* target -> text of its runner file, or NoFile
    lastOp,         \* the last action of mgr: [action, target, failed]
    before,         \* crontab when lastOp started
    runner_before,  \* runner when lastOp started
    nops,           \* number of actions of mgr so far
    stdout,         \* what the generate action printed
    inv_pc,         \* where list_inv and the heapq.merge it drives stand
    inv_args,       \* the arguments of list_inv: [target, start, end, min_level]
    inv_cron_lst,       \* list_inv: the specs that passed the level filter
    iters,          \* list_inv: per spec of inv_cron_lst, the time its croniter is at
    heap,           \* heapq.merge: the entries [key, order, value] it holds
    popped,         \* heapq.merge: the entry whose value it yielded last
    out,            \* the CronInv that list_inv has yielded, in order
    pulls,          \* list_inv: per spec of inv_cron_lst, the number of get_next calls
    inst_target,    \* per install process, the target of its CronDir
    inst_pc,        \* per install process, where it stands in CronDir.install
    inst_cron_tab,  \* per install process, the local cron_tab of CronDir.install
    read_at,        \* per install process, the number of writes when it read
    writes          \* the install processes in the order they replaced the crontab

mgrVars == <<crontab, runner, lastOp, before, runner_before, nops>>
invVars == <<inv_pc, inv_args, inv_cron_lst, iters, heap, popped, out, pulls>>
raceVars == <<inst_target, inst_pc, inst_cron_tab, read_at, writes>>
vars == <<dir, crontab, runner, lastOp, before, runner_before, nops, stdout,
          inv_pc, inv_args, inv_cron_lst, iters, heap, popped, out, pulls,
          inst_target, inst_pc, inst_cron_tab, read_at, writes>>

NoArgs == [target |-> NoTarget, start |-> 0, end |-> 0, min_level |-> 0]
NoEntry == [key |-> <<0, 0>>, order |-> 0, value |-> [dt |-> 0, iid |-> 0]]

\* list_inv has not been called
InvIdle ==
    /\ inv_pc = "idle"
    /\ inv_args = NoArgs
    /\ inv_cron_lst = <<>>
    /\ iters = <<>>
    /\ heap = {}
    /\ popped = NoEntry
    /\ out = <<>>
    /\ pulls = <<>>

\* the two install processes
Procs == {1, 2}

\* no install process runs
RaceIdle ==
    /\ inst_target = [p \in Procs |-> NoTarget]
    /\ inst_pc = [p \in Procs |-> "done"]
    /\ inst_cron_tab = [p \in Procs |-> <<>>]
    /\ read_at = [p \in Procs |-> 0]
    /\ writes = <<>>

NoOp == [action |-> "none", target |-> NoTarget, failed |-> "no"]

(***************************************************************************)
(* The cron directory and the crontab the actions of mgr start from        *)
(***************************************************************************)
Foo == <<"/d/", "foo">>
Bar == <<"/d/", "bar">>

\* # CRON@t1::02 18 * * 1-5            (tests/cronrepo_test.py, file foo)
SpecWeekday ==
    [path |-> Foo, target |-> T1, jid |-> <<>>, level |-> <<>>,
     min |-> <<"0", "2">>, hr |-> <<"1", "8">>, day |-> <<"*">>,
     mon |-> <<"*">>, dow |-> <<"1", "-", "5">>, args |-> <<>>]

\* # CRON@::03 * * * 6 + x             (a job of no target)
SpecHourly ==
    [path |-> Bar, target |-> NoTarget, jid |-> <<>>, level |-> <<>>,
     min |-> <<"0", "3">>, hr |-> <<"*">>, day |-> <<"*">>,
     mon |-> <<"*">>, dow |-> <<"6">>, args |-> <<" ", "x">>]

MgrDirs == { <<>>, <<SpecWeekday, SpecHourly>> }

Trampolines == { <<>>, <<"cronrepo_run">> }

\* lines a crontab may hold before cronrepo touches it: comments, blank and
\* indented lines, and marker lines left by earlier runs or by hand
LinePool ==
    { <<"# hello">>, <<" ", "# world">>, <<>> }
    \cup {markers(t)[i] : t \in Targets, i \in 1..2}

RECURSIVE TextOf(_)
TextOf(ls) == IF ls = <<>> THEN <<>> ELSE Head(ls) \o <<"\n">> \o TextOf(Tail(ls))

LineSeqs(n) == UNION {[1..k -> LinePool] : k \in 0..n}

InitTables == {TextOf(ls) : ls \in LineSeqs(MaxLines)}

Init ==
    /\ dir \in MgrDirs
    /\ crontab \in InitTables
    /\ runner = [t \in Targets |-> NoFile]
    /\ lastOp = NoOp
    /\ before = crontab
    /\ runner_before = runner
    /\ nops = 0
    /\ stdout = <<>>
    /\ InvIdle
    /\ RaceIdle

(***************************************************************************)
(* Actions of mgr                                                          *)
(***************************************************************************)
\* mgr('install'): CronDir.install.  crontab -l (in stripped_crontab) or
\* crontab - (in install_crontab) may exit non-zero; check=True then raises
\* and the action ends there.
Install(target, trampoline) ==
    /\ nops < MaxOps
    /\ nops' = nops + 1
    /\ before' = crontab
    /\ runner_before' = runner
    /\ UNCHANGED <<dir, stdout, invVars, raceVars>>
    /\ \/ /\ lastOp' = [action |-> "install", target |-> target, failed |-> "read"]
          /\ UNCHANGED <<crontab, runner>>
       \/ /\ lastOp' = [action |-> "install", target |-> target, failed |-> "replace"]
          /\ runner' = [runner EXCEPT ![target] = runner_text(trampoline)]
          /\ UNCHANGED crontab
       \/ /\ lastOp' = [action |-> "install", target |-> target, failed |-> "no"]
          /\ runner' = [runner EXCEPT ![target] = runner_text(trampoline)]
          /\ crontab' = install_text(dir, target, crontab)

\* mgr('uninstall'): CronDir.uninstall
Uninstall(target) ==
    /\ nops < MaxOps
    /\ nops' = nops + 1
    /\ before' = crontab
    /\ runner_before' = runner
    /\ UNCHANGED <<dir, stdout, invVars, raceVars>>
    /\ \/ /\ lastOp' = [action |-> "uninstall", target |-> target, failed |-> "read"]
          /\ UNCHANGED <<crontab, runner>>
       \/ /\ lastOp' = [action |-> "uninstall", target |-> target, failed |-> "replace"]
          /\ runner' = [runner EXCEPT ![target] = NoFile]
          /\ UNCHANGED crontab
       \/ /\ lastOp' = [action |-> "uninstall", target |-> target, failed |-> "no"]
          /\ runner' = [runner EXCEPT ![target] = NoFile]
          /\ crontab' = stripped_crontab(target, crontab)

Next ==
    \/ \E target \in Targets, trampoline \in Trampolines :
           Install(target, trampoline)
    \/ \E target \in Targets : Uninstall(target)

Spec == Init /\ [][Next]_vars

(***************************************************************************)
(* Properties of install and uninstall (specification Spec)                *)
(***************************************************************************)
\* the lines of a crontab text: each line ends with a newline
TableLines(text) ==
    LET split == SplitNL(text)
    IN  IF split[Len(split)] = <<>> THEN SubSeq(split, 1, Len(split) - 1)
        ELSE split

\* the first begin marker of target is on a line before its first end marker
MarkersInOrder(target, lines) ==
    /\ Index(lines, markers(target)[1]) # 0
    /\ Index(lines, markers(target)[2]) # 0
    /\ Index(lines, markers(target)[1]) < Index(lines, markers(target)[2])

\* lines without the lines numbered from..to
WithoutRange(lines, from, to) ==
    SubSeq(lines, 1, from - 1) \o SubSeq(lines, to + 1, Len(lines))

Done(action, target) ==
    lastOp = [action |-> action, target |-> target, failed |-> "no"]

\* C1: installing a target again, right after it was installed from the same
\* directory, writes the crontab that is already there:
\* merge(merge(T, B), B) = merge(T, B).
C1_Idempotent ==
    [][\A t \in Targets :
          (Done("install", t) /\ lastOp' = lastOp /\ nops' = nops + 1)
              => crontab' = crontab]_vars

\* C2 as claimed: when the crontab T does not hold the begin marker line
\* before the end marker line (end before begin, one of the two, or none),
\* install removes and alters no line of T: the lines of T are the first
\* lines of the crontab written, the block follows them.
C2_LinesUntouched ==
    \A t \in Targets :
        (Done("install", t) /\ ~MarkersInOrder(t, TableLines(before)))
            => /\ Len(TableLines(before)) <= Len(TableLines(crontab))
               /\ SubSeq(TableLines(crontab), 1, Len(TableLines(before)))
                      = TableLines(before)

\* C2 as amended: when T, with the white space at its two ends trimmed off,
\* does not hold the begin marker line before the end marker line, install
\* writes exactly the trimmed T, one newline, and the block.
C2_TrimmedUntouched ==
    \A t \in Targets :
        (Done("install", t) /\ ~MarkersInOrder(t, SplitNL(Strip(before))))
            => crontab = Strip(before) \o <<"\n">> \o generate(dir, t)

\* C2 witness: an install went through on a crontab that held the end marker
\* line before the begin marker line
C2_Witness ==
    \E t \in Targets :
        /\ Done("install", t)
        /\ LET lines == SplitNL(Strip(before))
           IN  /\ Index(lines, markers(t)[1]) # 0
               /\ Index(lines, markers(t)[2]) # 0
               /\ Index(lines, markers(t)[2]) < Index(lines, markers(t)[1])

\* C3: when the crontab holds the begin marker line before the end marker
\* line, stripping (the crontab that uninstall writes) removes the lines from
\* the first begin marker through the first end marker and keeps every other
\* line, unchanged and in order.
C3_StripsExactlyTheBlock ==
    \A t \in Targets :
        (Done("uninstall", t) /\ MarkersInOrder(t, TableLines(before)))
            => TableLines(crontab)
                   = WithoutRange(TableLines(before),
                                  Index(TableLines(before), markers(t)[1]),
                                  Index(TableLines(before), markers(t)[2]))

\* a line that generate renders for a job of the directory under target
JobLines(target) ==
    LET cron_lst == get_cron_lst(dir, target)
    IN  {cron_line(cron_lst[i], runner_path(target)) : i \in 1..Len(cron_lst)}

\* C8: when the crontab T holds no marker line of a target, install of the
\* target followed by uninstall of it writes back the lines of T, unchanged
\* and in order, without any marker line or job line of the target, and the
\* runner file of the target is gone.
C8_UninstallUndoesInstall ==
    [][\A t \in Targets :
          ( /\ Done("install", t)
            /\ \A i \in 1..Len(TableLines(before)) :
                   TableLines(before)[i] \notin {markers(t)[1], markers(t)[2]}
            /\ lastOp' = [action |-> "uninstall", target |-> t, failed |-> "no"] )
          => /\ TableLines(crontab') = TableLines(before)
             /\ \A i \in 1..Len(TableLines(crontab')) :
                    TableLines(crontab')[i]
                        \notin {markers(t)[1], markers(t)[2]} \cup JobLines(t)
             /\ runner'[t] = NoFile]_vars

\* C9: an install or uninstall that fails at crontab -l or at crontab -
\* leaves the crontab and the runner files as they were when it started.
C9_FailureChangesNothing ==
    lastOp.failed # "no" => (crontab = before /\ runner = runner_before)

\* the lines of a crontab outside the block of target (first begin marker
\* through first end marker, when they come in this order)
OutsideBlock(target, lines) ==
    IF MarkersInOrder(target, lines)
    THEN WithoutRange(lines, Index(lines, markers(target)[1]),
                      Index(lines, markers(target)[2]))
    ELSE lines

\* the block of target in a crontab: its lines, <<>> if there is none
BlockOf(target, lines) ==
    IF MarkersInOrder(target, lines)
    THEN SubSeq(lines, Index(lines, markers(target)[1]),
                Index(lines, markers(target)[2]))
    ELSE <<>>

IsInfix(a, b) ==
    \E i \in 0..(Len(b) - Len(a)) : SubSeq(b, i + 1, i + Len(a)) = a

\* C10: targets are installed independently.  An install or uninstall of
\* target A, whatever its outcome, leaves the block of any other target B
\* in the crontab: the two marker lines of B and the lines between them are
\* still there, unchanged and next to each other.  (Of the claim this is
\* the part about the block of B; the block of B is taken outside the block
\* of A.)
C10_OtherBlockKept ==
    [][\A a \in Targets, b \in Targets :
          (a # b /\ lastOp'.target = a /\ nops' = nops + 1)
          => IsInfix(BlockOf(b, OutsideBlock(a, TableLines(crontab))),
                     TableLines(crontab'))]_vars

(***************************************************************************)
(* mgr('generate') over directories of up to MaxSpecs tagged lines         *)
(* (specification SpecGen)                                                 *)
(***************************************************************************)
T2 == <<"t2">>

CronSpecOf(path, target, jid, lvl, min, hr, day, dow, args) ==
    [path |-> path, target |-> target, jid |-> jid, level |-> lvl,
     min |-> min, hr |-> hr, day |-> day, mon |-> <<"*">>, dow |-> dow,
     args |-> args]

\* tagged lines: those of tests/cronrepo_test.py and lines whose fields meet
\* more than one rule of the if / elif chain of generate
SpecPool ==
    { SpecWeekday,
      \* # CRON@t1::02 * * * 1-5
      CronSpecOf(Bar, T1, <<>>, <<>>, <<"0", "2">>, <<"*">>, <<"*">>,
                 <<"1", "-", "5">>, <<>>),
      \* # CRON@t1::02 18 * * 6
      CronSpecOf(Bar, T1, <<>>, <<>>, <<"0", "2">>, <<"1", "8">>, <<"*">>,
                 <<"6">>, <<>>),
      \* # CRON@t1::02 18 1 * *
      CronSpecOf(Bar, T1, <<>>, <<>>, <<"0", "2">>, <<"1", "8">>, <<"1">>,
                 <<"*">>, <<>>),
      \* # CRON@t1%j1::*/5 18 1 * 6
      CronSpecOf(Foo, T1, <<"j", "1">>, <<>>, <<"*", "/", "5">>, <<"1", "8">>,
                 <<"1">>, <<"6">>, <<>>),
      \* # CRON@::02 18 1 * 0,6
      CronSpecOf(Bar, NoTarget, <<>>, <<>>, <<"0", "2">>, <<"1", "8">>,
                 <<"1">>, <<"0", ",", "6">>, <<>>),
      \* # CRON@t1::02 18 1-5 * 1
      CronSpecOf(Foo, T1, <<>>, <<>>, <<"0", "2">>, <<"1", "8">>,
                 <<"1", "-", "5">>, <<"1">>, <<>>),
      \* # CRON@t2%j1:-1:04 17 * * 1 + foo bar
      CronSpecOf(Foo, T2, <<"j", "1">>, <<"-", "1">>, <<"0", "4">>,
                 <<"1", "7">>, <<"*">>, <<"1">>, <<" ", "foo", " ", "bar">>) }

GenDirs == UNION {[1..k -> SpecPool] : k \in 0..MaxSpecs}

InitGen ==
    /\ dir \in GenDirs
    /\ crontab = <<>>
    /\ runner = [t \in Targets |-> NoFile]
    /\ lastOp = NoOp
    /\ before = crontab
    /\ runner_before = runner
    /\ nops = 0
    /\ stdout = <<>>
    /\ InvIdle
    /\ RaceIdle

\* mgr('generate'): print(crondir_obj.generate(), end='')
Generate(target) ==
    /\ stdout' = generate(dir, target)
    /\ lastOp' = [action |-> "generate", target |-> target, failed |-> "no"]
    /\ UNCHANGED <<dir, crontab, runner, before, runner_before, nops, invVars,
                 raceVars>>

NextGen == \E target \in Targets : Generate(target)

SpecGen == InitGen /\ [][NextGen]_vars

\* the buckets in the order of the claim, and the rule of each
Labels == <<"More frequent than daily", "Weekends", "Monthly", "Weekdays">>

HasAnyOf(field, chars) == \E i \in 1..Len(field) : field[i] \in chars

FirstRule(spec) ==
    CASE HasAnyOf(spec.min, {",", "-", "/", "*"})
         \/ HasAnyOf(spec.hr, {",", "-", "/", "*"}) -> 1
      [] OTHER ->
         CASE ~HasAnyOf(spec.dow, {"1", "2", "3", "4", "5", "-", "*"}) -> 2
           [] OTHER ->
              CASE ~HasAnyOf(spec.day, {"-", "*"}) -> 3
                [] OTHER -> 4

HeaderLine(n) == <<"#", " ", Labels[n]>>

\* the bucket a line of the block is printed under: the number of the
\* nearest header line above line i, 0 if there is none
HeaderAbove(lines, i) ==
    LET hs == {j \in 1..(i - 1) : \E n \in 1..4 : lines[j] = HeaderLine(n)}
    IN  IF hs = {} THEN 0
        ELSE LET j == CHOOSE x \in hs : \A y \in hs : y <= x
             IN  CHOOSE n \in 1..4 : lines[j] = HeaderLine(n)

\* the descriptors the target filter admits, as positions of dir
Admitted(target) ==
    {i \in 1..Len(dir) : target = <<>> \/ dir[i].target = target}

LineOf(i, target) == cron_line(dir[i], runner_path(target))

\* C6: generate puts every descriptor into exactly one bucket, the one of
\* the first rule it meets: each line printed for it stands under the
\* header of that bucket and under no other.
C6_FirstMatchingRule ==
    \A t \in Targets :
        lastOp = [action |-> "generate", target |-> t, failed |-> "no"]
        => LET lines == TableLines(stdout)
           IN  \A i \in Admitted(t) :
                   /\ \E k \in 1..Len(lines) : lines[k] = LineOf(i, t)
                   /\ \A k \in 1..Len(lines) :
                          lines[k] = LineOf(i, t)
                              => HeaderAbove(lines, k) = FirstRule(dir[i])

\* C6 witness: generate printed a job that meets the rule of Weekends and
\* the rule of Monthly, and one that meets the rules of all but Weekdays
C6_Witness ==
    \E t \in Targets :
        /\ lastOp = [action |-> "generate", target |-> t, failed |-> "no"]
        /\ \E i \in Admitted(t) :
               /\ ~HasAnyOf(dir[i].dow, {"1", "2", "3", "4", "5", "-", "*"})
               /\ ~HasAnyOf(dir[i].day, {"-", "*"})
               /\ FirstRule(dir[i]) = 2
        /\ \E i \in Admitted(t) :
               /\ ~HasAnyOf(dir[i].dow, {"1", "2", "3", "4", "5", "-", "*"})
               /\ ~HasAnyOf(dir[i].day, {"-", "*"})
               /\ FirstRule(dir[i]) = 1

\* C7: the block is the begin marker, then for each bucket that has a
\* descriptor, in the order of Labels, its header and the lines of exactly
\* its descriptors, then the end marker; every admitted descriptor has its
\* line once (as often as it is in the directory), a bucket without
\* descriptor has no header, nothing else is in the block.
C7_BlockLayout ==
    \A t \in Targets :
        lastOp = [action |-> "generate", target |-> t, failed |-> "no"]
        => LET lines == TableLines(stdout)
               used == {n \in 1..4 : \E i \in Admitted(t) : FirstRule(dir[i]) = n}
               HeaderPos(n) == {k \in 1..Len(lines) : lines[k] = HeaderLine(n)}
           IN  /\ EndsWithNL(stdout)
               /\ Len(lines) = 2 + Cardinality(used) + Cardinality(Admitted(t))
               /\ lines[1] = markers(t)[1]
               /\ lines[Len(lines)] = markers(t)[2]
               /\ \A n \in 1..4 :
                      Cardinality(HeaderPos(n)) = IF n \in used THEN 1 ELSE 0
               /\ \A n \in used, m \in used :
                      n < m => \A k \in HeaderPos(n), l \in HeaderPos(m) : k < l
               /\ \A k \in 2..(Len(lines) - 1) :
                      \/ \E n \in used : lines[k] = HeaderLine(n)
                      \/ \E i \in Admitted(t) :
                             /\ lines[k] = LineOf(i, t)
                             /\ HeaderAbove(lines, k) = FirstRule(dir[i])
               /\ \A i \in Admitted(t) :
                      Cardinality({k \in 1..Len(lines) : lines[k] = LineOf(i, t)})
                          = Cardinality({j \in Admitted(t) :
                                             LineOf(j, t) = LineOf(i, t)})

\* C7 witness: generate printed a block for three admitted descriptors of
\* three buckets that the directory lists against the order of the buckets
C7_Witness ==
    \E t \in Targets :
        /\ lastOp = [action |-> "generate", target |-> t, failed |-> "no"]
        /\ \E i \in Admitted(t), j \in Admitted(t), k \in Admitted(t) :
               /\ i < j /\ j < k
               /\ FirstRule(dir[i]) > FirstRule(dir[j])
               /\ FirstRule(dir[j]) > FirstRule(dir[k])

\* the empty scan of C7: generate printed the bare markers for a directory
\* in which the target filter admits nothing
C7_EmptyScan ==
    \E t \in Targets :
        /\ lastOp = [action |-> "generate", target |-> t, failed |-> "no"]
        /\ dir # <<>>
        /\ Admitted(t) = {}
        /\ TableLines(stdout) = <<markers(t)[1], markers(t)[2]>>

(***************************************************************************)
(* mgr('list-inv'): CronDir.list_inv (specification SpecInv)               *)
(*                                                                         *)
(* A datetime is a number of minutes; minute 0 is 2020-07-10 00:00, the    *)
(* start of the window of test_crondir_list_inv, a Friday.  croniter is    *)
(* modelled for specs whose day and month fields are "*".                  *)
(***************************************************************************)
MinutesPerHour == 60
HoursPerDay == 24
MinutesPerDay == MinutesPerHour * HoursPerDay
EpochDow == 5                   \* cron day of week of day 0 (0 is Sunday)

Min(S) == CHOOSE x \in S : \A y \in S : x <= y

\* the values lo..hi that one cron field admits: a list of *, */n, a, a-b
FieldSet(field, lo, hi) ==
    LET parts == SplitOn(field, ",")
        PartSet(p) ==
            IF p = <<"*">> THEN lo..hi
            ELSE IF Len(p) > 2 /\ p[1] = "*" /\ p[2] = "/"
            THEN {v \in lo..hi : (v - lo) % ParseNat(SubSeq(p, 3, Len(p)), 0) = 0}
            ELSE IF "-" \in Range(p)
            THEN ParseNat(SubSeq(p, 1, Index(p, "-") - 1), 0)
                 .. ParseNat(SubSeq(p, Index(p, "-") + 1, Len(p)), 0)
            ELSE {ParseNat(p, 0)}
    IN  UNION {PartSet(p) : p \in Range(parts)}

DowSet(spec) == {v % 7 : v \in FieldSet(spec.dow, 0, 7)}

DowOf(day) == (day + EpochDow) % 7

\* the first minute after cur whose minute, hour and day of week are in mins,
\* hrs and dows; it is one of the next eight days
next_minute(mins, hrs, dows, cur) ==
    LET today == cur \div MinutesPerDay
    IN  Min({ t \in { (today + k) * MinutesPerDay + h * MinutesPerHour + m :
                        k \in 0..7, h \in hrs, m \in mins } :
                  t > cur /\ DowOf(t \div MinutesPerDay) \in dows })

\* croniter.get_next: the first minute after cur that the fields admit (the
\* fields are parsed once)
get_next(spec, cur) ==
    Min({ next_minute(mins, hrs, dows, cur) :
              mins \in {FieldSet(spec.min, 0, MinutesPerHour - 1)},
              hrs \in {FieldSet(spec.hr, 0, HoursPerDay - 1)},
              dows \in {DowSet(spec)} })

\* one step of the generator CronSpec.gen_inv: the CronInv it yields next
gen_inv(spec, iid, cur) ==
    [dt |-> get_next(spec, cur), iid |-> iid, cron_spec |-> spec]

\* CronInv.key with the ties turned round
key_TiesDescending(cron_inv) == <<cron_inv.dt, 0 - cron_inv.iid>>

\* CronInv.key
key(cron_inv) == <<cron_inv.dt, cron_inv.iid>>

\* heapq.merge compares [key, order, ...] entries: by key, then by order
EntryLess(a, b) ==
    \/ a.key[1] < b.key[1]
    \/ a.key[1] = b.key[1] /\ a.key[2] < b.key[2]
    \/ a.key = b.key /\ a.order < b.order

\* h[0], the smallest entry of the heap
HeapTop(h) == CHOOSE e \in h : \A f \in h : f = e \/ EntryLess(e, f)

\* the test of list_inv that ends the listing, taken at the end time too
past_end_AtEnd(cron_inv, end) == cron_inv.dt >= end

\* the test of list_inv that ends the listing: cron_inv.dt > end
past_end(cron_inv, end) == cron_inv.dt > end

\* the level filter of list_inv
level_filter(lst, min_level) ==
    SelectSeq(lst, LAMBDA spec : level(spec) >= min_level)

\* tagged lines whose day and month fields are "*"
InvPool ==
    { SpecWeekday,
      \* # CRON@t1:+1:02 18 * * *
      CronSpecOf(Bar, T1, <<>>, <<"+", "1">>, <<"0", "2">>, <<"1", "8">>,
                 <<"*">>, <<"*">>, <<>>),
      \* # CRON@:-1:*/30 17-18 * * *
      CronSpecOf(Bar, NoTarget, <<>>, <<"-", "1">>, <<"*", "/", "3", "0">>,
                 <<"1", "7", "-", "1", "8">>, <<"*">>, <<"*">>, <<>>),
      \* # CRON@t1%j1::02 18 * * 6,7
      CronSpecOf(Foo, T1, <<"j", "1">>, <<>>, <<"0", "2">>, <<"1", "8">>,
                 <<"*">>, <<"6", ",", "7">>, <<>>),
      \* # CRON@t2%j1:-1:04 17 * * 1 + foo bar
      CronSpecOf(Foo, T2, <<"j", "1">>, <<"-", "1">>, <<"0", "4">>,
                 <<"1", "7">>, <<"*">>, <<"1">>, <<" ", "foo", " ", "bar">>) }

InvDirs == UNION {[1..k -> InvPool] : k \in 0..MaxJobs}

\* start and end of the windows listed: the three days of the test, windows
\* that end or start on the minute 18:02 of day 0, a window that ends before
\* it starts
InvWindows ==
    { <<0, 3 * MinutesPerDay>>, <<1078, 1082>>, <<1078, 1081>>,
      <<1082, 1082 + MinutesPerDay>>, <<1082, 1078>> }

InvLevels == {0 - 1, 0, 1}

InitInv ==
    /\ dir \in InvDirs
    /\ crontab = <<>>
    /\ runner = [t \in Targets |-> NoFile]
    /\ lastOp = NoOp
    /\ before = crontab
    /\ runner_before = runner
    /\ nops = 0
    /\ stdout = <<>>
    /\ InvIdle
    /\ RaceIdle

\* list_inv up to the call of heapq.merge: the level filter and one
\* generator per spec, each with a croniter that stands at start
ListInv(target, start, end, min_level) ==
    /\ inv_pc = "idle"
    /\ inv_args' = [target |-> target, start |-> start, end |-> end,
                    min_level |-> min_level]
    /\ inv_cron_lst' = level_filter(get_cron_lst(dir, target), min_level)
    /\ iters' = [i \in 1..Len(inv_cron_lst') |-> start]
    /\ pulls' = [i \in 1..Len(inv_cron_lst') |-> 0]
    /\ inv_pc' = "merge"
    /\ UNCHANGED <<dir, mgrVars, raceVars, stdout, heap, popped, out>>

\* heapq.merge, when its first value is asked for: it takes the first value
\* of every generator and makes the heap
MergeFill ==
    /\ inv_pc = "merge"
    /\ iters' = [i \in 1..Len(iters) |-> get_next(inv_cron_lst[i], iters[i])]
    /\ heap' = { LET value == gen_inv(inv_cron_lst[i], i - 1, iters[i])
                 IN  [key |-> key(value), order |-> i - 1, value |-> value]
                 : i \in 1..Len(iters) }
    /\ pulls' = [i \in 1..Len(iters) |-> pulls[i] + 1]
    /\ inv_pc' = "loop"
    /\ UNCHANGED <<dir, mgrVars, raceVars, stdout, inv_args, inv_cron_lst, popped, out>>

\* a for loop that waits, and asks for nothing, when the smallest entry is
\* past the end time
Loop_BlocksPastEnd ==
    /\ inv_pc = "loop"
    /\ \/ /\ heap = {}
          /\ inv_pc' = "done"
          /\ UNCHANGED <<popped, out>>
       \/ /\ heap # {}
          /\ past_end(HeapTop(heap).value, inv_args.end)
          /\ UNCHANGED <<inv_pc, popped, out>>
       \/ /\ heap # {}
          /\ ~past_end(HeapTop(heap).value, inv_args.end)
          /\ out' = Append(out, HeapTop(heap).value)
          /\ popped' = HeapTop(heap)
          /\ inv_pc' = "resume"
    /\ UNCHANGED <<dir, mgrVars, raceVars, stdout, inv_args, inv_cron_lst, iters, heap,
                   pulls>>

\* one turn of the for loop of list_inv: heapq.merge yields the value of the
\* smallest entry (or ends, when there is no generator); list_inv breaks if
\* it is past the end time and yields it otherwise
Loop ==
    /\ inv_pc = "loop"
    /\ \/ /\ heap = {}
          /\ inv_pc' = "done"
          /\ UNCHANGED <<popped, out>>
       \/ /\ heap # {}
          /\ past_end(HeapTop(heap).value, inv_args.end)
          /\ inv_pc' = "done"
          /\ UNCHANGED <<popped, out>>
       \/ /\ heap # {}
          /\ ~past_end(HeapTop(heap).value, inv_args.end)
          /\ out' = Append(out, HeapTop(heap).value)
          /\ popped' = HeapTop(heap)
          /\ inv_pc' = "resume"
    /\ UNCHANGED <<dir, mgrVars, raceVars, stdout, inv_args, inv_cron_lst, iters, heap,
                   pulls>>

\* a merge that, asked for the next value, takes the next value of every
\* generator
Resume_AdvancesAll ==
    /\ inv_pc = "resume"
    /\ iters' = [i \in 1..Len(iters) |-> get_next(inv_cron_lst[i], iters[i])]
    /\ heap' = { LET value == gen_inv(inv_cron_lst[i], i - 1, iters[i])
                 IN  [key |-> key(value), order |-> i - 1, value |-> value]
                 : i \in 1..Len(iters) }
    /\ pulls' = [i \in 1..Len(iters) |-> pulls[i] + 1]
    /\ inv_pc' = "loop"
    /\ UNCHANGED <<dir, mgrVars, raceVars, stdout, inv_args, inv_cron_lst, popped, out>>

\* heapq.merge, asked for the next value: it takes the next value of the
\* generator whose value it yielded and puts it in the place of the entry
Resume ==
    /\ inv_pc = "resume"
    /\ LET i == popped.order + 1
           value == gen_inv(inv_cron_lst[i], popped.value.iid, iters[i])
       IN  /\ iters' = [iters EXCEPT ![i] = value.dt]
           /\ pulls' = [pulls EXCEPT ![i] = pulls[i] + 1]
           /\ heap' = (heap \ {popped})
                      \cup {[key |-> key(value), order |-> popped.order,
                             value |-> value]}
    /\ inv_pc' = "loop"
    /\ UNCHANGED <<dir, mgrVars, raceVars, stdout, inv_args, inv_cron_lst, popped, out>>

NextInv ==
    \/ \E target \in Targets, w \in InvWindows, min_level \in InvLevels :
           ListInv(target, w[1], w[2], min_level)
    \/ MergeFill
    \/ Loop
    \/ Resume

SpecInv == InitInv /\ [][NextInv]_vars

\* list_inv with its caller: the for loop of mgr asks list_inv for the next
\* value until list_inv is over, and the process runs nothing else, so a
\* step of the listing that can be taken is taken
SpecInvLive ==
    /\ InitInv
    /\ [][NextInv]_vars
    /\ WF_vars(MergeFill)
    /\ WF_vars(Loop)
    /\ WF_vars(Resume)

(***************************************************************************)
(* Properties of list_inv (specification SpecInv)                          *)
(***************************************************************************)
\* C4: what list_inv has yielded is in order of fire time, occurrences of
\* one fire time are in ascending sequence id, and every fire time lies in
\* [start, end].
C4_OrderedInWindow ==
    /\ \A k \in 1..Len(out) :
           inv_args.start <= out[k].dt /\ out[k].dt <= inv_args.end
    /\ \A k \in 1..(Len(out) - 1) :
           \/ out[k].dt < out[k + 1].dt
           \/ out[k].dt = out[k + 1].dt /\ out[k].iid < out[k + 1].iid

\* C4 witness: the listing is over and two jobs were listed for one minute
C4_Witness ==
    /\ inv_pc = "done"
    /\ \E k \in 1..(Len(out) - 1) :
           out[k].dt = out[k + 1].dt /\ out[k].iid < out[k + 1].iid
    /\ \E k \in 1..(Len(out) - 1) : out[k].dt < out[k + 1].dt

\* minute t is a fire time of spec: its minute, hour and day of the week
\* are admitted by the fields
Fires(spec, t) ==
    /\ (t % MinutesPerHour) \in FieldSet(spec.min, 0, MinutesPerHour - 1)
    /\ ((t \div MinutesPerHour) % HoursPerDay)
           \in FieldSet(spec.hr, 0, HoursPerDay - 1)
    /\ DowOf(t \div MinutesPerDay) \in DowSet(spec)

\* the positions in dir of the specs of the target that have the level
Listed(target, min_level) ==
    {i \in 1..Len(dir) :
        /\ target = <<>> \/ dir[i].target = target
        /\ level(dir[i]) >= min_level}

\* the occurrences of the window: fire time after start and not after end,
\* sequence id the place of the spec among the listed ones, from 0
Occurrences(target, start, end, min_level) ==
    LET listed == Listed(target, min_level)
    IN  UNION { LET spec == dir[i]
                    iid == Cardinality({j \in listed : j < i})
                    mins == FieldSet(spec.min, 0, MinutesPerHour - 1)
                    hrs == FieldSet(spec.hr, 0, HoursPerDay - 1)
                    dows == DowSet(spec)
                IN  { [dt |-> t, iid |-> iid, cron_spec |-> spec] :
                      t \in { u \in (start + 1)..end :
                                /\ (u % MinutesPerHour) \in mins
                                /\ ((u \div MinutesPerHour) % HoursPerDay) \in hrs
                                /\ DowOf(u \div MinutesPerDay) \in dows } }
              : i \in listed }

\* C5: when list_inv is over it has yielded exactly the occurrences (t, job)
\* with the job's level >= min_level and t a fire time of the job after
\* start and not after end, each once.
C5_ExactlyTheWindow ==
    inv_pc = "done"
    => /\ {out[k] : k \in 1..Len(out)}
              = Occurrences(inv_args.target, inv_args.start, inv_args.end,
                            inv_args.min_level)
       /\ \A k \in 1..Len(out), l \in 1..Len(out) : out[k] = out[l] => k = l

\* C5 witness: the listing is over, an occurrence at the end time was
\* yielded, a job of the target was left out for its level, and a job that
\* fires again after the end had an occurrence in the window
C5_Witness ==
    /\ inv_pc = "done"
    /\ \E k \in 1..Len(out) : out[k].dt = inv_args.end
    /\ \E i \in 1..Len(dir) :
           /\ inv_args.target = <<>> \/ dir[i].target = inv_args.target
           /\ level(dir[i]) < inv_args.min_level
    /\ Len(out) >= 1

RECURSIVE SumSeq(_)
SumSeq(q) == IF q = <<>> THEN 0 ELSE Head(q) + SumSeq(Tail(q))

\* the number of occurrences of the job with sequence id iid yielded so far
Emitted(iid) == Cardinality({k \in 1..Len(out) : out[k].iid = iid})

\* once the merge holds one fire time of every job, a step asks only the
\* generator of the occurrence yielded last, and for one fire time
OnlyEmittedAdvances ==
    inv_pc \in {"loop", "resume"}
    => \A i \in 1..Len(pulls) :
           pulls'[i] # pulls[i]
               => (Len(out) > 0 /\ i = out[Len(out)].iid + 1
                   /\ pulls'[i] = pulls[i] + 1)

\* C12: the merge of list_inv is lazy.  In every state the generator of each
\* job has been asked for at most one fire time more than the number of the
\* job's occurrences yielded so far, and the number of fire times asked for
\* in total is at most the number of occurrences yielded plus the number of
\* jobs; and once the merge holds one fire time of every job, a step asks
\* only the generator of the occurrence yielded last, for one fire time.
C12_LazyMerge ==
    /\ [](/\ \A i \in 1..Len(pulls) : pulls[i] <= Emitted(i - 1) + 1
          /\ SumSeq(pulls) <= Len(out) + Len(inv_cron_lst))
    /\ [][OnlyEmittedAdvances]_vars

\* C12 witness: the listing of two jobs or more is over, two occurrences or
\* more were yielded, the fire times asked for are as many as the
\* occurrences yielded plus the jobs, and one job was asked for one fire
\* time only, which was not yielded
C12_Witness ==
    /\ inv_pc = "done"
    /\ Len(inv_cron_lst) >= 2
    /\ Len(out) >= 2
    /\ SumSeq(pulls) = Len(out) + Len(inv_cron_lst)
    /\ \E i \in 1..Len(pulls) : pulls[i] = 1 /\ Emitted(i - 1) = 0

\* the job at place i of inv_cron_lst has no fire time in the window
NoFireInWindow(i) == get_next(inv_cron_lst[i], inv_args.start) > inv_args.end

\* C13: list_inv, once called, is over after finitely many steps, whatever
\* the window and the jobs: also when jobs have no fire time in the window
\* and when no job passes the level filter.  A job without a fire time in
\* the window has no occurrence in what is yielded.
C13_ListInvFinishes ==
    /\ (inv_pc # "idle") ~> (inv_pc = "done")
    /\ [](\A i \in 1..Len(inv_cron_lst) : NoFireInWindow(i) => Emitted(i - 1) = 0)

\* C13 witness: the listing is over; the first job listed has no fire time
\* in the window and another job has occurrences that were yielded
C13_Witness ==
    /\ inv_pc = "done"
    /\ Len(inv_cron_lst) >= 2
    /\ NoFireInWindow(1)
    /\ \E i \in 2..Len(inv_cron_lst) : Emitted(i - 1) >= 1

\* C13 witness of the listing that is over with no job after the level
\* filter, in a directory that holds jobs of the target
C13_WitnessNoJob ==
    /\ inv_pc = "done"
    /\ inv_cron_lst = <<>>
    /\ get_cron_lst(dir, inv_args.target) # <<>>

(***************************************************************************)
(* Two processes that run mgr('install') at the same time                  *)
(* (specification SpecRace).  Each process runs CronDir.install in three   *)
(* steps that other processes can see: crontab -l, the write of the runner *)
(* file, crontab -.  Both scan the same cron directory; the crontab        *)
(* commands of both exit with 0.                                           *)
(***************************************************************************)
InitRace ==
    /\ dir \in MgrDirs
    /\ crontab \in InitTables
    /\ runner = [t \in Targets |-> NoFile]
    /\ lastOp = NoOp
    /\ before = crontab
    /\ runner_before = runner
    /\ nops = 0
    /\ stdout = <<>>
    /\ InvIdle
    /\ inst_target \in [Procs -> Targets]
    /\ inst_pc = [p \in Procs |-> "start"]
    /\ inst_cron_tab = [p \in Procs |-> <<>>]
    /\ read_at = [p \in Procs |-> 0]
    /\ writes = <<>>

\* CronDir.install up to cron_tab += lines: the process reads the crontab
\* and computes the text it is going to write
InstallRead(p) ==
    /\ inst_pc[p] = "start"
    /\ inst_cron_tab' =
           [inst_cron_tab EXCEPT ![p] = install_text(dir, inst_target[p], crontab)]
    /\ read_at' = [read_at EXCEPT ![p] = Len(writes)]
    /\ inst_pc' = [inst_pc EXCEPT ![p] = "read"]
    /\ UNCHANGED <<dir, mgrVars, stdout, invVars, inst_target, writes>>

\* CronDir.install: self.create_runner(trampoline)
InstallRunner(p, trampoline) ==
    /\ inst_pc[p] = "read"
    /\ runner' = [runner EXCEPT ![inst_target[p]] = runner_text(trampoline)]
    /\ inst_pc' = [inst_pc EXCEPT ![p] = "runner"]
    /\ UNCHANGED <<dir, crontab, lastOp, before, runner_before, nops, stdout,
                   invVars, inst_target, inst_cron_tab, read_at, writes>>

\* CronDir.install: install_crontab(cron_tab)
InstallReplace(p) ==
    /\ inst_pc[p] = "runner"
    /\ crontab' = inst_cron_tab[p]
    /\ writes' = Append(writes, p)
    /\ inst_pc' = [inst_pc EXCEPT ![p] = "done"]
    /\ UNCHANGED <<dir, runner, lastOp, before, runner_before, nops, stdout,
                   invVars, inst_target, inst_cron_tab, read_at>>

NextRace ==
    \/ \E p \in Procs : InstallRead(p)
    \/ \E p \in Procs, trampoline \in Trampolines : InstallRunner(p, trampoline)
    \/ \E p \in Procs : InstallReplace(p)

SpecRace == InitRace /\ [][NextRace]_vars

(***************************************************************************)
(* Properties of two installs at the same time (specification SpecRace)    *)
(***************************************************************************)
\* both processes have replaced the crontab
BothWrote == Len(writes) = 2

\* the last writer read the crontab before the earlier writer replaced it
ReadBeforeEarlierWrite == read_at[writes[2]] = 0

\* the lines of the block that process p writes
BlockLines(p) == TableLines(generate(dir, inst_target[p]))

\* the same without the end marker line
BlockHead(p) == SubSeq(BlockLines(p), 1, Len(BlockLines(p)) - 1)

Count(lines, line) == Cardinality({i \in 1..Len(lines) : lines[i] = line})

\* the markers of target are absent, or there once each and in order
AbsentOrOnce(target, lines) ==
    \/ /\ Count(lines, markers(target)[1]) = 0
       /\ Count(lines, markers(target)[2]) = 0
    \/ /\ Count(lines, markers(target)[1]) = 1
       /\ Count(lines, markers(target)[2]) = 1
       /\ MarkersInOrder(target, lines)

InitOne ==
    /\ dir \in MgrDirs
    /\ lastOp \in {[action |-> "none", target |-> t, failed |-> "no"] : t \in Targets}
    /\ crontab \in {T \in InitTables : AbsentOrOnce(lastOp.target, TableLines(T))}
    /\ runner = [t \in Targets |-> NoFile]
    /\ before = crontab
    /\ runner_before = runner
    /\ nops = 0
    /\ stdout = <<>>
    /\ InvIdle
    /\ RaceIdle

NextOne ==
    \/ \E trampoline \in Trampolines : Install(lastOp.target, trampoline)
    \/ Uninstall(lastOp.target)

SpecOne == InitOne /\ [][NextOne]_vars

\* C14: after any installs and uninstalls of one target, on a crontab that
\* at the start held the markers of the target not at all or once each in
\* order, the crontab holds at most one begin marker line and at most one
\* end marker line of the target; after an install it holds one of each, the
\* begin marker first, and the end marker is the last line of the crontab.
C14_OneBlock ==
    LET t == lastOp.target
        lines == TableLines(crontab)
    IN  /\ Count(lines, markers(t)[1]) <= 1
        /\ Count(lines, markers(t)[2]) <= 1
        /\ Done("install", t)
               => /\ Count(lines, markers(t)[1]) = 1
                  /\ Count(lines, markers(t)[2]) = 1
                  /\ MarkersInOrder(t, lines)
                  /\ Index(lines, markers(t)[2]) = Len(lines)

\* C14 for the targets with a name
C14_OneBlockNamed == lastOp.target # NoTarget => C14_OneBlock

\* a second install of a named target went through on a crontab that held
\* lines of its own and the block of the first install
C14_NamedWitness ==
    /\ lastOp.target # NoTarget
    /\ Done("install", lastOp.target)
    /\ nops = 2
    /\ MarkersInOrder(lastOp.target, TableLines(before))
    /\ Index(TableLines(before), markers(lastOp.target)[1]) > 1
    /\ dir # <<>>

====
